---- MODULE Spec2Model ----
(***************************************************************************)
(* Error classification of the runtime (src/runtime/errors.rs).            *)
(*                                                                         *)
(* get_error_class_name receives a type-erased error value and returns     *)
(* Option<&'static str>.  An error value is modelled as the sequence of    *)
(* its layers, outermost first: a wrapping variant holds exactly one       *)
(* nested value, so a value is a finite chain.  A layer records the        *)
(* concrete type, the variant, and what the custom-class hook reports for  *)
(* the value that starts at this layer.                                    *)
(*                                                                         *)
(* The call is modelled frame by frame: `stack` is the Rust call stack of  *)
(* classifier invocations, every function body is an operator returning    *)
(* what that body does next (return a tag, panic, or call another          *)
(* classifier), and the actions of Next execute one body or one return.    *)
(***************************************************************************)
EXTENDS Integers, Sequences, FiniteSets, TLC

\* Bound on the nesting depth of the error values that are classified.
MaxDepth == 2

\* Option::None of Option<&'static str>; Some(tag) is the tag itself.
None == "None"

Layer(ty, var, custom) == [ty |-> ty, var |-> var, custom |-> custom]

\* The value a wrapping variant holds.
Inner(e) == Tail(e)

\* Nesting depth of a value: the number of wrapping layers around its core.
Depth(e) == Len(e) - 1

-----------------------------------------------------------------------------
(* The variant sets of the error types, as the match arms name them.  Each  *)
(* entry is <<type, variant, payload>>: payload "-" is a variant whose      *)
(* payload is not inspected, "any" a nested type-erased error (AnyError),   *)
(* and a type name a nested value of that concrete type.                    *)

Plain(ty, vars) == {<<ty, v, "-">> : v \in vars}

Wraps(ty, vars, payload) == {<<ty, v, payload>> : v \in vars}

\* io::ErrorKind values with an arm of their own in get_io_error_class.
ModeledKinds ==
  {"NotFound", "PermissionDenied", "ConnectionRefused", "ConnectionReset",
   "ConnectionAborted", "NotConnected", "AddrInUse", "AddrNotAvailable",
   "BrokenPipe", "AlreadyExists", "InvalidInput", "InvalidData", "TimedOut",
   "Interrupted", "WriteZero", "UnexpectedEof", "Other", "WouldBlock"}

\* Kinds the match cannot name and looks for by text.
TextualKinds ==
  {"FilesystemLoop", "IsADirectory", "NetworkUnreachable", "NotADirectory"}

\* Further kinds of the non-exhaustive enum.
ResidualKinds == {"OutOfMemory", "Unsupported"}

IoKinds == ModeledKinds \cup TextualKinds \cup ResidualKinds

WebVariants ==
  Plain("WebError", {"Base64Decode", "InvalidEncodingLabel", "BufferTooLong",
                     "ValueTooLarge", "BufferTooSmall", "DataInvalid",
                     "DataError"})
  \cup Plain("CompressionError", {"UnsupportedFormat", "ResourceClosed",
                                  "IoTypeError"})
  \cup Wraps("CompressionError", {"Io"}, "io::Error")
  \cup Plain("MessagePortError", {"InvalidTransfer", "NotReady",
                                  "TransferSelf"})
  \cup Wraps("MessagePortError", {"Canceled"}, "Canceled")
  \cup Wraps("MessagePortError", {"Resource"}, "any")
  \cup Wraps("StreamResourceError", {"Canceled"}, "Canceled")
  \cup Plain("StreamResourceError", {"Js"})
  \cup Plain("BlobError", {"BlobPartNotFound", "SizeLargerThanBlobPart",
                           "BlobURLsNotSupported", "Url"})
  \cup Plain("WebStorageError", {"ContextNotSupported", "Sqlite",
                                 "StorageExceeded"})
  \cup Wraps("WebStorageError", {"Io"}, "io::Error")
  \cup Plain("CanvasError", {"UnsupportedColorType", "Image"})

FfiVariants ==
  Plain("IRError", {"_"})
  \cup Plain("ReprError", {"InvalidOffset", "InvalidArrayBuffer",
                           "DestinationLengthTooShort", "InvalidCString",
                           "CStringTooLong", "InvalidBool", "InvalidU8",
                           "InvalidI8", "InvalidU16", "InvalidI16",
                           "InvalidU32", "InvalidI32", "InvalidU64",
                           "InvalidI64", "InvalidF32", "InvalidF64",
                           "InvalidPointer"})
  \cup Wraps("ReprError", {"Permission"}, "any")
  \cup Plain("DlfcnError", {"RegisterSymbol", "Dlopen"})
  \cup Wraps("DlfcnError", {"Permission", "Other"}, "any")
  \cup Wraps("StaticError", {"Dlfcn"}, "DlfcnError")
  \cup Plain("StaticError", {"InvalidTypeVoid", "InvalidTypeStruct"})
  \cup Wraps("StaticError", {"Resource"}, "any")
  \cup Wraps("CallbackError", {"Resource", "Other", "Permission"}, "any")
  \cup Plain("CallError", {"IR", "NonblockingCallFailure", "InvalidSymbol"})
  \cup Wraps("CallError", {"Permission"}, "any")
  \cup Wraps("CallError", {"Callback"}, "CallbackError")

CronValidation ==
  {"NameExceeded", "NameInvalid", "AlreadyExists", "TooManyCrons",
   "InvalidCron", "InvalidBackoff"}

ResourceVariants ==
  Wraps("CronError", {"Resource", "Other"}, "any")
  \cup Plain("CronError", CronValidation \cup {"AcquireError"})
  \cup Plain("CacheError", {"Sqlite", "JoinError"})
  \cup Wraps("CacheError", {"Resource", "Other"}, "any")
  \cup Wraps("CacheError", {"Io"}, "io::Error")
  \cup Wraps("BroadcastChannelError", {"Resource", "Other"}, "any")
  \cup Plain("BroadcastChannelError", {"MPSCSendError", "BroadcastSendError"})

KvLimits ==
  {"TooManyRanges", "TooManyEntries", "TooManyChecks", "TooManyMutations",
   "TooManyKeys", "KeyTooLargeToRead", "KeyTooLargeToWrite",
   "TotalMutationTooLarge", "TotalKeyTooLarge", "ValueTooLarge",
   "EnqueuePayloadTooLarge"}

KvVariants ==
  Wraps("KvError", {"DatabaseHandler", "Resource", "Kv"}, "any")
  \cup Plain("KvError", KvLimits \cup
         {"InvalidLimit", "InvalidBoundaryKey", "QueueMessageNotFound",
          "StartKeyNotInKeyspace", "EndKeyNotInKeyspace",
          "StartKeyGreaterThanEndKey", "EmptyKey", "InvalidCursor",
          "CursorOutOfBounds", "InvalidRange"})
  \cup Wraps("KvError", {"Io", "InvalidEnqueue"}, "io::Error")
  \cup Wraps("KvError", {"InvalidCheck"}, "KvCheckError")
  \cup Wraps("KvError", {"InvalidMutation"}, "KvMutationError")
  \cup Plain("KvCheckError", {"InvalidVersionstamp"})
  \cup Wraps("KvCheckError", {"Io"}, "io::Error")
  \cup Plain("KvMutationError", {"BigInt", "InvalidMutationWithValue",
                                 "InvalidMutationWithoutValue"})
  \cup Wraps("KvMutationError", {"Io"}, "io::Error")
  \cup Plain("SqliteBackendError", {"_"})

NetVariants ==
  Plain("NetError", {"ListenerClosed", "ListenerBusy", "SocketClosed",
                     "SocketClosedNotConnected", "SocketBusy",
                     "AcceptTaskOngoing", "NoResolvedAddress", "AddrParse",
                     "DnsNotFound", "DnsNotConnected", "DnsTimedOut", "Dns",
                     "UnsupportedRecordType", "InvalidUtf8",
                     "UnexpectedKeyType", "InvalidHostname", "TcpStreamBusy",
                     "Rustls", "ListenTlsRequiresKey", "Reunite"})
  \cup Wraps("NetError", {"Io"}, "io::Error")
  \cup Wraps("NetError", {"RootCertStore", "Permission", "Resource"}, "any")
  \cup Wraps("NetError", {"Map"}, "MapError")
  \cup Wraps("NetError", {"Canceled"}, "Canceled")
  \cup Wraps("NetError", {"Tls"}, "TlsError")
  \cup Wraps("MapError", {"Io"}, "io::Error")
  \cup Plain("MapError", {"NoResources"})
  \cup Plain("TlsError", {"Rustls", "CertInvalid", "CertsNotFound",
                          "KeysNotFound", "KeyDecode"})
  \cup Wraps("TlsError", {"UnableAddPemFileToCert"}, "io::Error")

\* errno values of nix::Error: the ones the match names, and one more.
NixErrnos ==
  {"ECHILD", "EINVAL", "ENOENT", "ENOTTY", "EPERM", "ESRCH", "ELOOP",
   "ENOTDIR", "ENETUNREACH", "EISDIR", "UnknownErrno", "ENOTSUP", "EACCES"}

OtherVariants ==
  Plain("DomExceptionOperationError", {"_"})
  \cup Plain("DomExceptionNetworkError", {"_"})
  \cup Plain("UrlPatternError", {"_"})
  \cup Plain("dlopen2::Error", {"NullCharacter", "NullSymbol"})
  \cup Wraps("dlopen2::Error", {"OpeningLibraryError", "SymbolGettingError",
                                "AddrNotMatchingDll"}, "io::Error")
  \cup Plain("hyper::Error", {"_"})
  \cup Plain("hyper_util::client::legacy::Error", {"_"})
  \cup Plain("hyper_v014::Error", {"_"})
  \cup Plain("Arc<hyper_v014::Error>", {"_"})
  \cup Plain("Canceled", {"_"})
  \cup Plain("env::VarError", {"NotPresent", "NotUnicode"})
  \cup Plain("io::Error", IoKinds)
  \cup Plain("ModuleResolutionError", {"_"})
  \cup Plain("notify::Error", {"Generic", "PathNotFound", "WatchNotFound",
                               "InvalidConfig", "MaxFilesWatch"})
  \cup Wraps("notify::Error", {"Io"}, "io::Error")
  \cup Plain("regex::Error", {"Syntax", "CompiledTooBig", "__Nonexhaustive"})
  \cup Plain("serde_json::Error", {"Syntax", "Data", "Eof"})
  \cup Wraps("serde_json::Error", {"Io"}, "io::Error")
  \cup Plain("url::ParseError", {"_"})
  \cup Plain("nix::Error", NixErrnos)
  \cup Plain("UnregisteredError", {"_"})

VariantTable ==
  WebVariants \cup FfiVariants \cup ResourceVariants \cup KvVariants
  \cup NetVariants \cup OtherVariants

-----------------------------------------------------------------------------
(* What a function body does: return a value, panic, or call `fn` on `arg`  *)
(* and then apply `k` to what the callee returns.                           *)

Ret(t) == [kind |-> "ret", tag |-> t, fn |-> "-", arg |-> <<>>, k |-> "-"]

Panic(why) ==
  [kind |-> "panic", tag |-> why, fn |-> "-", arg |-> <<>>, k |-> "-"]

Call(f, a, cont) ==
  [kind |-> "call", tag |-> None, fn |-> f, arg |-> a, k |-> cont]

\* A slip: the Option is passed on as it is, None included.
unwrap_or_Error_keeps_none(r) == r

\* Option::unwrap_or("Error")
unwrap_or_Error(r) == IF r = None THEN "Error" ELSE r

\* What the caller does with the callee's result: "id" passes it on (a tail
\* call, or Option::map wrapping the tag in Some), "unwrap_or" is
\* .unwrap_or("Error").
Apply(k, r) == IF k = "unwrap_or" THEN unwrap_or_Error(r) ELSE r

\* deno_core::error::get_custom_error_class: the class tag the value itself
\* reports, or None.
get_custom_error_class(e) == Head(e).custom

\* A slip: the wrapped value is asked for its custom class only, as the
\* Resource arms of the cron and cache classifiers do.
Reclassify_hook_only(e) ==
  Ret(unwrap_or_Error(get_custom_error_class(Inner(e))))

\* A slip: the wrapping value itself is classified again.
Reclassify_same_value(e) == Call("get_error_class_name", e, "unwrap_or")

\* get_error_class_name(e).unwrap_or("Error") inside a wrapping variant
Reclassify(e) == Call("get_error_class_name", Inner(e), "unwrap_or")

\* get_io_error_class(e) on the wrapped io::Error
IoClass(e) == Call("get_io_error_class", Inner(e), "id")

\* `let io_err: io::Error = e.to_owned().into()` for a deno_core::Canceled
CanceledIntoIoError == <<Layer("io::Error", "Interrupted", None)>>

\* io::ErrorKind::to_string(): the Display text of the kind.
ErrorKindToString(kind) ==
  CASE kind = "FilesystemLoop" ->
         "filesystem loop or indirection limit (e.g. symlink loop)"
    [] kind = "IsADirectory" -> "is a directory"
    [] kind = "NetworkUnreachable" -> "network unreachable"
    [] kind = "NotADirectory" -> "not a directory"
    [] kind = "OutOfMemory" -> "out of memory"
    [] kind = "Unsupported" -> "unsupported"
    [] OTHER -> "other error"

get_dlopen_error_class(e) ==
  LET v == Head(e).var IN
  CASE v = "NullCharacter" -> Ret("InvalidData")
    [] v \in {"OpeningLibraryError", "SymbolGettingError",
              "AddrNotMatchingDll"} -> IoClass(e)
    [] v = "NullSymbol" -> Ret("NotFound")

get_env_var_error_class(e) ==
  LET v == Head(e).var IN
  CASE v = "NotPresent" -> Ret("NotFound")
    [] v = "NotUnicode" -> Ret("InvalidData")

get_io_error_class(e) ==
  LET kind == Head(e).var IN
  CASE kind \in ModeledKinds \ {"InvalidInput", "Other"} -> Ret(kind)
    [] kind = "InvalidInput" -> Ret("TypeError")
    [] kind = "Other" -> Ret("Error")
    [] OTHER ->
       LET kind_str == ErrorKindToString(kind) IN
       IF kind_str \in {"FilesystemLoop", "IsADirectory",
                        "NetworkUnreachable", "NotADirectory"}
       THEN Ret(kind_str)
       ELSE Ret("Error")

get_module_resolution_error_class(e) == Ret("URIError")

get_notify_error_class(e) ==
  LET v == Head(e).var IN
  CASE v \in {"Generic", "MaxFilesWatch"} -> Ret("Error")
    [] v = "Io" -> IoClass(e)
    [] v \in {"PathNotFound", "WatchNotFound"} -> Ret("NotFound")
    [] v = "InvalidConfig" -> Ret("InvalidData")

get_regex_error_class(e) ==
  LET v == Head(e).var IN
  CASE v = "Syntax" -> Ret("SyntaxError")
    [] v = "CompiledTooBig" -> Ret("RangeError")
    [] OTHER -> Ret("Error")

\* Category::Io: source() downcast to io::Error, classified, then unwrap().
get_serde_json_error_class(e) ==
  LET v == Head(e).var IN
  CASE v = "Io" ->
         IF Len(Inner(e)) > 0 /\ Head(Inner(e)).ty = "io::Error"
         THEN IoClass(e)
         ELSE Panic("unwrap on None")
    [] v = "Syntax" -> Ret("SyntaxError")
    [] v = "Data" -> Ret("InvalidData")
    [] v = "Eof" -> Ret("UnexpectedEof")

get_url_parse_error_class(e) == Ret("URIError")

get_hyper_error_class(e) == Ret("Http")

get_hyper_util_error_class(e) == Ret("Http")

get_hyper_v014_error_class(e) == Ret("Http")

get_nix_error_class(e) ==
  LET v == Head(e).var IN
  CASE v \in {"ECHILD", "ENOENT", "ESRCH"} -> Ret("NotFound")
    [] v = "EINVAL" -> Ret("TypeError")
    [] v = "ENOTTY" -> Ret("BadResource")
    [] v = "EPERM" -> Ret("PermissionDenied")
    [] v = "ELOOP" -> Ret("FilesystemLoop")
    [] v = "ENOTDIR" -> Ret("NotADirectory")
    [] v = "ENETUNREACH" -> Ret("NetworkUnreachable")
    [] v = "EISDIR" -> Ret("IsADirectory")
    [] v = "UnknownErrno" -> Ret("Error")
    [] v = "ENOTSUP" -> Panic("unreachable!()")
    [] OTHER -> Ret("Error")

get_web_error_class(e) ==
  LET v == Head(e).var IN
  CASE v = "Base64Decode" -> Ret("DOMExceptionInvalidCharacterError")
    [] v \in {"InvalidEncodingLabel", "ValueTooLarge", "BufferTooSmall"} ->
         Ret("RangeError")
    [] v \in {"BufferTooLong", "DataInvalid"} -> Ret("TypeError")
    [] v = "DataError" -> Ret("Error")

get_web_compression_error_class(e) ==
  LET v == Head(e).var IN
  CASE v \in {"UnsupportedFormat", "ResourceClosed", "IoTypeError"} ->
         Ret("TypeError")
    [] v = "Io" -> IoClass(e)

get_web_message_port_error_class(e) ==
  LET v == Head(e).var IN
  CASE v \in {"InvalidTransfer", "NotReady", "TransferSelf"} ->
         Ret("TypeError")
    [] v = "Canceled" -> Call("get_io_error_class", CanceledIntoIoError, "id")
    [] v = "Resource" -> Reclassify(e)

get_web_stream_resource_error_class(e) ==
  LET v == Head(e).var IN
  CASE v = "Canceled" -> Call("get_io_error_class", CanceledIntoIoError, "id")
    [] v = "Js" -> Ret("TypeError")

get_web_blob_error_class(e) ==
  LET v == Head(e).var IN
  CASE v \in {"BlobPartNotFound", "SizeLargerThanBlobPart",
              "BlobURLsNotSupported"} -> Ret("TypeError")
    [] v = "Url" -> Ret("Error")

get_ffi_repr_error_class(e) ==
  LET v == Head(e).var IN
  CASE v \in {"InvalidOffset", "InvalidArrayBuffer", "InvalidCString",
              "CStringTooLong", "InvalidBool", "InvalidU8", "InvalidI8",
              "InvalidU16", "InvalidI16", "InvalidU32", "InvalidI32",
              "InvalidU64", "InvalidI64", "InvalidF32", "InvalidF64",
              "InvalidPointer"} -> Ret("TypeError")
    [] v = "DestinationLengthTooShort" -> Ret("RangeError")
    [] v = "Permission" -> Reclassify(e)

get_ffi_dlfcn_error_class(e) ==
  LET v == Head(e).var IN
  CASE v \in {"RegisterSymbol", "Dlopen"} -> Ret("Error")
    [] v \in {"Permission", "Other"} -> Reclassify(e)

get_ffi_static_error_class(e) ==
  LET v == Head(e).var IN
  CASE v = "Dlfcn" -> Call("get_ffi_dlfcn_error_class", Inner(e), "id")
    [] v \in {"InvalidTypeVoid", "InvalidTypeStruct"} -> Ret("TypeError")
    [] v = "Resource" -> Reclassify(e)

get_ffi_callback_error_class(e) ==
  LET v == Head(e).var IN
  CASE v \in {"Resource", "Other", "Permission"} -> Reclassify(e)

get_ffi_call_error_class(e) ==
  LET v == Head(e).var IN
  CASE v \in {"IR", "InvalidSymbol"} -> Ret("TypeError")
    [] v = "NonblockingCallFailure" -> Ret("Error")
    [] v = "Permission" -> Reclassify(e)
    [] v = "Callback" -> Call("get_ffi_callback_error_class", Inner(e), "id")

get_webstorage_class_name(e) ==
  LET v == Head(e).var IN
  CASE v = "ContextNotSupported" -> Ret("DOMExceptionNotSupportedError")
    [] v = "Sqlite" -> Panic("todo!()")
    [] v = "Io" -> IoClass(e)
    [] v = "StorageExceeded" -> Ret("DOMExceptionQuotaExceededError")

\* A slip: a missing certificate file answered as a missing file.
get_tls_error_class_certs_not_found(e) ==
  LET v == Head(e).var IN
  CASE v = "Rustls" -> Ret("Error")
    [] v = "UnableAddPemFileToCert" -> IoClass(e)
    [] v = "CertsNotFound" -> Ret("NotFound")
    [] v \in {"CertInvalid", "KeysNotFound", "KeyDecode"} ->
         Ret("InvalidData")

get_tls_error_class(e) ==
  LET v == Head(e).var IN
  CASE v = "Rustls" -> Ret("Error")
    [] v = "UnableAddPemFileToCert" -> IoClass(e)
    [] v \in {"CertInvalid", "CertsNotFound", "KeysNotFound", "KeyDecode"} ->
         Ret("InvalidData")

get_cron_error_class(e) ==
  LET v == Head(e).var IN
  CASE v = "Resource" ->
         Ret(unwrap_or_Error(get_custom_error_class(Inner(e))))
    [] v \in {"NameExceeded", "NameInvalid", "AlreadyExists", "TooManyCrons",
              "InvalidCron", "InvalidBackoff"} -> Ret("TypeError")
    [] v = "AcquireError" -> Ret("Error")
    [] v = "Other" -> Reclassify(e)

get_canvas_error(e) ==
  LET v == Head(e).var IN
  CASE v = "UnsupportedColorType" -> Ret("TypeError")
    [] v = "Image" -> Ret("Error")

get_cache_error(e) ==
  LET v == Head(e).var IN
  CASE v \in {"Sqlite", "JoinError"} -> Ret("Error")
    [] v = "Resource" ->
         Ret(unwrap_or_Error(get_custom_error_class(Inner(e))))
    [] v = "Other" -> Reclassify(e)
    [] v = "Io" -> IoClass(e)

get_broadcast_channel_error(e) ==
  LET v == Head(e).var IN
  CASE v = "Resource" ->
         IF get_custom_error_class(Inner(e)) = None
         THEN Panic("unwrap on None")
         ELSE Ret(get_custom_error_class(Inner(e)))
    [] v \in {"MPSCSendError", "BroadcastSendError"} -> Ret("Error")
    [] v = "Other" -> Reclassify(e)

\* KvError::InvalidCheck(e) => match e { ... }
KvInvalidCheck(e) ==
  LET c == Head(Inner(e)).var IN
  CASE c = "InvalidVersionstamp" -> Ret("TypeError")
    [] c = "Io" -> Call("get_io_error_class", Inner(Inner(e)), "id")

\* A slip in the nested match: the Io arm answers like the BigInt arm.
KvInvalidMutation_io_as_error(e) ==
  LET m == Head(Inner(e)).var IN
  CASE m \in {"BigInt", "Io"} -> Ret("Error")
    [] m \in {"InvalidMutationWithValue",
              "InvalidMutationWithoutValue"} -> Ret("TypeError")

\* KvError::InvalidMutation(e) => match e { ... }
KvInvalidMutation(e) ==
  LET m == Head(Inner(e)).var IN
  CASE m = "BigInt" -> Ret("Error")
    [] m = "Io" -> Call("get_io_error_class", Inner(Inner(e)), "id")
    [] m \in {"InvalidMutationWithValue",
              "InvalidMutationWithoutValue"} -> Ret("TypeError")

get_kv_error(e) ==
  LET v == Head(e).var IN
  CASE v \in {"DatabaseHandler", "Resource", "Kv"} -> Reclassify(e)
    [] v \in {"TooManyRanges", "TooManyEntries", "TooManyChecks",
              "TooManyMutations", "TooManyKeys", "InvalidLimit",
              "InvalidBoundaryKey", "KeyTooLargeToRead",
              "KeyTooLargeToWrite", "TotalMutationTooLarge",
              "TotalKeyTooLarge", "QueueMessageNotFound",
              "StartKeyNotInKeyspace", "EndKeyNotInKeyspace",
              "StartKeyGreaterThanEndKey", "EmptyKey", "ValueTooLarge",
              "EnqueuePayloadTooLarge", "InvalidCursor",
              "CursorOutOfBounds", "InvalidRange"} -> Ret("TypeError")
    [] v \in {"Io", "InvalidEnqueue"} -> IoClass(e)
    [] v = "InvalidCheck" -> KvInvalidCheck(e)
    [] v = "InvalidMutation" -> KvInvalidMutation(e)

get_net_map_error(e) ==
  LET v == Head(e).var IN
  CASE v = "Io" -> IoClass(e)
    [] v = "NoResources" -> Ret("Error")

get_net_error(e) ==
  LET v == Head(e).var IN
  CASE v \in {"ListenerClosed", "SocketClosed"} -> Ret("BadResource")
    [] v \in {"ListenerBusy", "SocketBusy", "AcceptTaskOngoing",
              "TcpStreamBusy"} -> Ret("Busy")
    [] v \in {"SocketClosedNotConnected", "DnsNotConnected"} ->
         Ret("NotConnected")
    [] v = "Io" -> IoClass(e)
    [] v \in {"RootCertStore", "Permission", "Resource"} -> Reclassify(e)
    [] v \in {"NoResolvedAddress", "AddrParse", "Dns", "UnexpectedKeyType",
              "Rustls", "Reunite"} -> Ret("Error")
    [] v = "Map" -> Call("get_net_map_error", Inner(e), "id")
    [] v = "Canceled" -> Call("get_io_error_class", CanceledIntoIoError, "id")
    [] v = "DnsNotFound" -> Ret("NotFound")
    [] v = "DnsTimedOut" -> Ret("TimedOut")
    [] v = "UnsupportedRecordType" -> Ret("NotSupported")
    [] v \in {"InvalidUtf8", "ListenTlsRequiresKey"} -> Ret("InvalidData")
    [] v = "InvalidHostname" -> Ret("TypeError")
    [] v = "Tls" -> Call("get_tls_error_class", Inner(e), "id")

-----------------------------------------------------------------------------
(* The registry: the checks of get_error_class_name after the custom hook,  *)
(* in source order.  `ty` is the type the check downcasts to, `fn` what it  *)
(* maps a successful downcast with.                                         *)

Check(ty, f) == [ty |-> ty, fn |-> f]

Registry ==
  << Check("DomExceptionOperationError",
           "deno_webgpu::error::get_error_class_name"),
     Check("DomExceptionNetworkError",
           "deno_websocket::get_network_error_class_name"),
     Check("WebError", "get_web_error_class"),
     Check("CompressionError", "get_web_compression_error_class"),
     Check("MessagePortError", "get_web_message_port_error_class"),
     Check("StreamResourceError", "get_web_stream_resource_error_class"),
     Check("BlobError", "get_web_blob_error_class"),
     Check("IRError", "|_| TypeError"),
     Check("ReprError", "get_ffi_repr_error_class"),
     Check("DlfcnError", "get_ffi_dlfcn_error_class"),
     Check("StaticError", "get_ffi_static_error_class"),
     Check("CallbackError", "get_ffi_callback_error_class"),
     Check("CallError", "get_ffi_call_error_class"),
     Check("TlsError", "get_tls_error_class"),
     Check("CronError", "get_cron_error_class"),
     Check("CanvasError", "get_canvas_error"),
     Check("CacheError", "get_cache_error"),
     Check("KvError", "get_kv_error"),
     Check("NetError", "get_net_error"),
     Check("MapError", "get_net_map_error"),
     Check("BroadcastChannelError", "get_broadcast_channel_error"),
     Check("WebStorageError", "get_webstorage_class_name"),
     Check("UrlPatternError", "|_| TypeError"),
     Check("dlopen2::Error", "get_dlopen_error_class"),
     Check("hyper::Error", "get_hyper_error_class"),
     Check("hyper_util::client::legacy::Error", "get_hyper_util_error_class"),
     Check("hyper_v014::Error", "get_hyper_v014_error_class"),
     Check("Arc<hyper_v014::Error>", "get_hyper_v014_error_class"),
     Check("Canceled", "|e| get_io_error_class(e.into())"),
     Check("env::VarError", "get_env_var_error_class"),
     Check("io::Error", "get_io_error_class"),
     Check("ModuleResolutionError", "get_module_resolution_error_class"),
     Check("notify::Error", "get_notify_error_class"),
     Check("regex::Error", "get_regex_error_class"),
     Check("serde_json::Error", "get_serde_json_error_class"),
     Check("url::ParseError", "get_url_parse_error_class"),
     Check("SqliteBackendError", "|_| TypeError"),
     Check("nix::Error", "get_nix_error_class") >>

\* deno_webgpu::error::get_error_class_name: Some for its own error type.
deno_webgpu_get_error_class_name(e) ==
  IF Head(e).ty = "DomExceptionOperationError"
  THEN "DOMExceptionOperationError" ELSE None

\* deno_websocket::get_network_error_class_name: Some for its own error type.
deno_websocket_get_network_error_class_name(e) ==
  IF Head(e).ty = "DomExceptionNetworkError"
  THEN "DOMExceptionNetworkError" ELSE None

\* A slip: a downcast that also looks at the wrapped source of the value.
downcast_ref_or_source(e, ty) ==
  \/ Head(e).ty = ty
  \/ (Len(e) > 1 /\ Head(Inner(e)).ty = ty)

\* e.downcast_ref::<T>() is Some: the concrete type of the value is T.
downcast_ref(e, ty) == Head(e).ty = ty

\* Whether one .or_else closure yields Some for e.
Matches(c, e) ==
  CASE c.fn = "deno_webgpu::error::get_error_class_name" ->
         deno_webgpu_get_error_class_name(e) # None
    [] c.fn = "deno_websocket::get_network_error_class_name" ->
         deno_websocket_get_network_error_class_name(e) # None
    [] OTHER -> downcast_ref(e, c.ty)

\* What a matching closure does.
OnMatch(c, e) ==
  CASE c.fn = "deno_webgpu::error::get_error_class_name" ->
         Ret(deno_webgpu_get_error_class_name(e))
    [] c.fn = "deno_websocket::get_network_error_class_name" ->
         Ret(deno_websocket_get_network_error_class_name(e))
    [] c.fn = "|_| TypeError" -> Ret("TypeError")
    [] c.fn = "|e| get_io_error_class(e.into())" ->
         Call("get_io_error_class", CanceledIntoIoError, "id")
    [] OTHER -> Call(c.fn, e, "id")

\* The indices of the checks of `ord` that yield Some for e.
Hits(e, ord) == {i \in DOMAIN ord : Matches(ord[i], e)}

First(S) == CHOOSE i \in S : \A j \in S : i <= j

\* A slip: the custom hook appended to the chain instead of starting it.
get_error_class_name_hook_last(e, ord) ==
  IF Hits(e, ord) # {}
  THEN OnMatch(ord[First(Hits(e, ord))], e)
  ELSE Ret(get_custom_error_class(e))

\* A slip: a generic tag instead of None at the end of the chain.
get_error_class_name_default_error(e, ord) ==
  IF get_custom_error_class(e) # None
  THEN Ret(get_custom_error_class(e))
  ELSE IF Hits(e, ord) = {}
       THEN Ret("Error")
       ELSE OnMatch(ord[First(Hits(e, ord))], e)

\* The .or_else chain: the custom hook, then the checks in the order `ord`;
\* or_else is lazy, so nothing after the first Some is evaluated.
get_error_class_name(e, ord) ==
  IF get_custom_error_class(e) # None
  THEN Ret(get_custom_error_class(e))
  ELSE IF Hits(e, ord) = {}
       THEN Ret(None)
       ELSE OnMatch(ord[First(Hits(e, ord))], e)

\* The body of the function named fn, applied to e.
Body(fn, e, ord) ==
  CASE fn = "get_error_class_name" -> get_error_class_name(e, ord)
    [] fn = "get_dlopen_error_class" -> get_dlopen_error_class(e)
    [] fn = "get_env_var_error_class" -> get_env_var_error_class(e)
    [] fn = "get_io_error_class" -> get_io_error_class(e)
    [] fn = "get_module_resolution_error_class" ->
         get_module_resolution_error_class(e)
    [] fn = "get_notify_error_class" -> get_notify_error_class(e)
    [] fn = "get_regex_error_class" -> get_regex_error_class(e)
    [] fn = "get_serde_json_error_class" -> get_serde_json_error_class(e)
    [] fn = "get_url_parse_error_class" -> get_url_parse_error_class(e)
    [] fn = "get_hyper_error_class" -> get_hyper_error_class(e)
    [] fn = "get_hyper_util_error_class" -> get_hyper_util_error_class(e)
    [] fn = "get_hyper_v014_error_class" -> get_hyper_v014_error_class(e)
    [] fn = "get_nix_error_class" -> get_nix_error_class(e)
    [] fn = "get_web_error_class" -> get_web_error_class(e)
    [] fn = "get_web_compression_error_class" ->
         get_web_compression_error_class(e)
    [] fn = "get_web_message_port_error_class" ->
         get_web_message_port_error_class(e)
    [] fn = "get_web_stream_resource_error_class" ->
         get_web_stream_resource_error_class(e)
    [] fn = "get_web_blob_error_class" -> get_web_blob_error_class(e)
    [] fn = "get_ffi_repr_error_class" -> get_ffi_repr_error_class(e)
    [] fn = "get_ffi_dlfcn_error_class" -> get_ffi_dlfcn_error_class(e)
    [] fn = "get_ffi_static_error_class" -> get_ffi_static_error_class(e)
    [] fn = "get_ffi_callback_error_class" -> get_ffi_callback_error_class(e)
    [] fn = "get_ffi_call_error_class" -> get_ffi_call_error_class(e)
    [] fn = "get_webstorage_class_name" -> get_webstorage_class_name(e)
    [] fn = "get_tls_error_class" -> get_tls_error_class(e)
    [] fn = "get_cron_error_class" -> get_cron_error_class(e)
    [] fn = "get_canvas_error" -> get_canvas_error(e)
    [] fn = "get_cache_error" -> get_cache_error(e)
    [] fn = "get_broadcast_channel_error" -> get_broadcast_channel_error(e)
    [] fn = "get_kv_error" -> get_kv_error(e)
    [] fn = "get_net_map_error" -> get_net_map_error(e)
    [] fn = "get_net_error" -> get_net_error(e)

-----------------------------------------------------------------------------
(* The error values that are classified.                                    *)

\* The class tags a value may report through the custom hook.
CustomClasses == {"BadResource"}

Customs == {None} \cup CustomClasses

\* Type-erased causes a wrapping variant may hold: plain OS errors, errors of
\* an unregistered type with and without a custom class, a registered error
\* that carries a custom class, one whose classifier panics, and these
\* wrapped again.
CauseCores ==
  {<<Layer("io::Error", k, None)>> : k \in {"PermissionDenied", "NotFound"}}
  \cup {<<Layer("UnregisteredError", "_", c)>> : c \in Customs}
  \cup {<<Layer("NetError", "SocketBusy", c)>> : c \in CustomClasses}
  \cup {<<Layer("WebStorageError", "Sqlite", None)>>}

CauseWrappers ==
  {<<"NetError", "Permission">>, <<"KvError", "Kv">>,
   <<"DlfcnError", "Other">>, <<"CronError", "Resource">>,
   <<"BroadcastChannelError", "Resource">>}

RECURSIVE Causes(_)
Causes(d) ==
  CauseCores \cup
  (IF d = 0 THEN {}
   ELSE {<<Layer(w[1], w[2], None)>> \o x :
           w \in CauseWrappers, x \in Causes(d - 1)})

\* The values of concrete type ty, of nesting depth at most d, whose
\* outermost layer reports the custom class c.
RECURSIVE ValuesOf(_, _, _)
ValuesOf(ty, c, d) ==
  UNION { LET h == <<Layer(v[1], v[2], c)>> IN
          CASE v[3] = "-" -> {h}
            [] v[3] = "any" ->
                 IF d = 0 THEN {} ELSE {h \o x : x \in Causes(d - 1)}
            [] OTHER ->
                 IF d = 0 THEN {}
                 ELSE {h \o x : x \in ValuesOf(v[3], None, d - 1)}
        : v \in {w \in VariantTable : w[1] = ty} }

Types == {v[1] : v \in VariantTable}

\* The inputs of get_error_class_name.
Roots == UNION {ValuesOf(ty, c, MaxDepth) : ty \in Types, c \in Customs}

-----------------------------------------------------------------------------
(* One call of get_error_class_name(root), frame by frame.                  *)

VARIABLES
  root,    \* the error value handed to get_error_class_name
  order,   \* the order of the registry's checks: a permutation of their
           \* positions in the source
  stack,   \* call stack: frames [fn, arg, k], innermost last
  ret,     \* the value being returned
  pc       \* "call": the innermost frame runs its body; "ret": it returns;
           \* "done": get_error_class_name has returned ret; "panicked"

vars == <<root, order, stack, ret, pc>>

Frame(f, a, cont) == [fn |-> f, arg |-> a, k |-> cont]

Top == stack[Len(stack)]

\* The registry's checks in the order tried.
Checks == [i \in DOMAIN order |-> Registry[order[i]]]

\* The checks in source order.
SourceOrder == [i \in DOMAIN Registry |-> i]

Out == Body(Top.fn, Top.arg, Checks)

InRegistry == Top.fn = "get_error_class_name"

Start(r, ord) ==
  /\ root = r
  /\ order = ord
  /\ stack = <<Frame("get_error_class_name", r, "id")>>
  /\ ret = None
  /\ pc = "call"

Init == \E r \in Roots : Start(r, SourceOrder)

Push ==
  /\ stack' = Append(stack, Frame(Out.fn, Out.arg, Out.k))
  /\ UNCHANGED <<root, order, ret, pc>>

Yield ==
  /\ ret' = Out.tag
  /\ pc' = "ret"
  /\ UNCHANGED <<root, order, stack>>

\* The custom hook reports a class: the chain stops there.
HookClassifies ==
  /\ pc = "call" /\ InRegistry
  /\ get_custom_error_class(Top.arg) # None
  /\ Yield

\* A check downcasts the value and calls its classifier.
Dispatch ==
  /\ pc = "call" /\ InRegistry
  /\ get_custom_error_class(Top.arg) = None
  /\ Out.kind = "call"
  /\ Push

\* A check yields its tag without a classifier of this file.
CheckReturns ==
  /\ pc = "call" /\ InRegistry
  /\ get_custom_error_class(Top.arg) = None
  /\ Out.kind = "ret" /\ Out.tag # None
  /\ Yield

\* No check matches: the chain ends with None.
Unclassified ==
  /\ pc = "call" /\ InRegistry
  /\ get_custom_error_class(Top.arg) = None
  /\ Out.kind = "ret" /\ Out.tag = None
  /\ Yield

\* A domain classifier maps the variant to a tag.
ClassifierReturns ==
  /\ pc = "call" /\ ~InRegistry
  /\ Out.kind = "ret"
  /\ Yield

\* A wrapping variant re-enters get_error_class_name on the wrapped value.
ClassifierRecurses ==
  /\ pc = "call" /\ ~InRegistry
  /\ Out.kind = "call" /\ Out.fn = "get_error_class_name"
  /\ Push

\* A wrapping variant calls another classifier on the wrapped value.
ClassifierDelegates ==
  /\ pc = "call" /\ ~InRegistry
  /\ Out.kind = "call" /\ Out.fn # "get_error_class_name"
  /\ Push

\* todo!(), unreachable!() or unwrap() on None: the thread panics.
ClassifierPanics ==
  /\ pc = "call"
  /\ Out.kind = "panic"
  /\ pc' = "panicked"
  /\ ret' = Out.tag
  /\ UNCHANGED <<root, order, stack>>

\* The innermost frame returns; its caller's continuation is applied.
Return ==
  /\ pc = "ret"
  /\ ret' = Apply(Top.k, ret)
  /\ stack' = SubSeq(stack, 1, Len(stack) - 1)
  /\ pc' = IF Len(stack) = 1 THEN "done" ELSE "ret"
  /\ UNCHANGED <<root, order>>

Next ==
  \/ HookClassifies
  \/ Dispatch
  \/ CheckReturns
  \/ Unclassified
  \/ ClassifierReturns
  \/ ClassifierRecurses
  \/ ClassifierDelegates
  \/ ClassifierPanics
  \/ Return

Spec == Init /\ [][Next]_vars

\* The scheduler of a thread: a running call keeps running.
FairSpec == Spec /\ WF_vars(Next)

-----------------------------------------------------------------------------
(* The same call with the registry's checks in another order.               *)

Reverse(s) == [i \in 1..Len(s) |-> s[Len(s) + 1 - i]]

MoveToFront(s, k) ==
  <<s[k]>> \o SubSeq(s, 1, k - 1) \o SubSeq(s, k + 1, Len(s))

\* Every check moved to the front in turn, and the whole sequence reversed:
\* whichever check matches a value, some order tries it first.
Perms ==
  {Reverse(SourceOrder)}
  \cup {MoveToFront(SourceOrder, k) : k \in 2..Len(SourceOrder)}

\* The reordered registry classifies the values below the deepest nesting.
PermRoots == {r \in Roots : Depth(r) < MaxDepth}

InitPerm == \E r \in PermRoots : \E ord \in Perms : Start(r, ord)

SpecPerm == InitPerm /\ [][Next]_vars

-----------------------------------------------------------------------------
(* The result of a whole call, computed from the bodies in one step.        *)

PanicResult == "<panic>"

RECURSIVE Eval(_, _, _)
Eval(fn, e, ord) ==
  LET out == Body(fn, e, ord) IN
  CASE out.kind = "ret" -> out.tag
    [] out.kind = "panic" -> PanicResult
    [] out.kind = "call" ->
         LET r == Eval(out.fn, out.arg, ord) IN
         IF r = PanicResult THEN r ELSE Apply(out.k, r)

\* get_error_class_name(e) with the checks in source order.
ClassOf(e) == Eval("get_error_class_name", e, Registry)

Done == pc = "done"

Panicked == pc = "panicked"

\* The innermost frame is returning `ret`.
Returning(fn) == pc = "ret" /\ Top.fn = fn

\* The top-level call is returning.
RootReturning == pc = "ret" /\ Len(stack) = 1

Var(e) == Head(e).var

\* The types the registry has a check for.
KnownTypes == {Registry[i].ty : i \in DOMAIN Registry}

-----------------------------------------------------------------------------
(* C1.  Totality: for every variant of every known domain error type,       *)
(* get_error_class_name returns Some(tag): it never returns None and it     *)
(* never panics.                                                            *)
C1_Totality ==
  Head(root).ty \in KnownTypes =>
    /\ ~Panicked
    /\ (Done => ret # None)

(* C2.  Precedence: whenever get_error_class_name is entered on a value for *)
(* which the custom hook reports a tag T, it returns Some(T); no classifier *)
(* is called and nothing panics while that call is the innermost one, even  *)
(* when a built-in check recognises the value's type.                       *)
C2_Precedence ==
  /\ \A i \in DOMAIN stack :
       (stack[i].fn = "get_error_class_name"
        /\ get_custom_error_class(stack[i].arg) # None)
       => /\ i = Len(stack)
          /\ ~Panicked
          /\ (pc = "ret" => ret = get_custom_error_class(stack[i].arg))
  /\ (Done /\ get_custom_error_class(root) # None
        => ret = get_custom_error_class(root))

\* The root without the custom class of its outermost layer.
Uncustomised(e) == <<[Head(e) EXCEPT !.custom = None]>> \o Tail(e)

\* A value with a custom class whose built-in classifier says otherwise.
C2_Witness ==
  /\ Done
  /\ get_custom_error_class(root) # None
  /\ Hits(root, Checks) # {}
  /\ ClassOf(Uncustomised(root)) \notin {None, PanicResult, ret}
  /\ ret = get_custom_error_class(root)

(* C3.  Unknown-type fallback: when get_error_class_name is entered on a    *)
(* value that reports no custom class and that no check of the registry     *)
(* matches, it returns None and does not panic.                             *)
C3_UnknownFallback ==
  (/\ pc \in {"ret", "panicked"}
   /\ Top.fn = "get_error_class_name"
   /\ get_custom_error_class(Top.arg) = None
   /\ Hits(Top.arg, Checks) = {})
  => (~Panicked /\ ret = None)

C3_Witness ==
  /\ RootReturning
  /\ Head(root).ty = "UnregisteredError"
  /\ get_custom_error_class(root) = None
  /\ ret = None

(* C4.  Delegation correctness: an OS I/O error of kind PermissionDenied    *)
(* classifies as "PermissionDenied" when it is wrapped, through any number  *)
(* of the I/O- and cause-wrapping variants of the networking, FFI and       *)
(* key-value store errors, none of which reports a custom class.            *)
PermissionDeniedWrappers ==
  {<<"NetError", v>> :
     v \in {"Io", "Map", "Permission", "Resource", "RootCertStore"}}
  \cup {<<"MapError", "Io">>}
  \cup {<<"ReprError", "Permission">>}
  \cup {<<"DlfcnError", v>> : v \in {"Permission", "Other"}}
  \cup {<<"StaticError", v>> : v \in {"Dlfcn", "Resource"}}
  \cup {<<"CallbackError", v>> : v \in {"Resource", "Other", "Permission"}}
  \cup {<<"CallError", v>> : v \in {"Permission", "Callback"}}
  \cup {<<"KvError", v>> :
          v \in {"Io", "InvalidEnqueue", "InvalidCheck", "InvalidMutation",
                 "DatabaseHandler", "Resource", "Kv"}}
  \cup {<<"KvCheckError", "Io">>, <<"KvMutationError", "Io">>}

WrapsPermissionDenied(e) ==
  /\ Len(e) >= 2
  /\ e[Len(e)] = Layer("io::Error", "PermissionDenied", None)
  /\ \A i \in 1..(Len(e) - 1) :
       /\ <<e[i].ty, e[i].var>> \in PermissionDeniedWrappers
       /\ e[i].custom = None

C4_Delegation ==
  (/\ Head(root).ty \in {"NetError", "ReprError", "DlfcnError", "StaticError",
                         "CallbackError", "CallError", "KvError"}
   /\ WrapsPermissionDenied(root))
  => /\ ~Panicked
     /\ (Done => ret = "PermissionDenied")

\* CallError::Callback(CallbackError::Permission(io::Error PermissionDenied))
C4_Witness ==
  /\ Done
  /\ WrapsPermissionDenied(root)
  /\ Head(root).ty = "CallError" /\ Var(root) = "Callback"
  /\ Depth(root) = 2
  /\ ret = "PermissionDenied"

(* C5.  Recursion termination: every call of get_error_class_name ends;     *)
(* a classifier of a wrapping variant calls get_error_class_name or another *)
(* classifier only on a value of strictly smaller nesting depth, and a      *)
(* check of the registry calls a classifier, never the registry, on a value *)
(* that is not deeper.                                                      *)
Calls == Len(stack') = Len(stack) + 1

Callee == stack'[Len(stack')]

C5_Termination ==
  /\ [][Calls /\ ~InRegistry => Depth(Callee.arg) < Depth(Top.arg)]_vars
  /\ [][Calls /\ InRegistry =>
          /\ Callee.fn # "get_error_class_name"
          /\ Depth(Callee.arg) <= Depth(Top.arg)]_vars
  /\ <>(Done \/ Panicked)

\* get_error_class_name re-entered twice and returned.
C5_Witness ==
  /\ pc = "ret"
  /\ Len(stack) = 5
  /\ stack[3].fn = "get_error_class_name"
  /\ Top.fn = "get_error_class_name"
  /\ Depth(Top.arg) = 0
  /\ Depth(root) = 2

(* C6.  Order independence of the built-in checks: for every error value    *)
(* at most one check of the registry yields Some, and with the checks in    *)
(* any other order (the custom hook kept first) the call ends as it does in *)
(* source order: the same result, or the same panic.                        *)
C6_OrderIndependence ==
  /\ (pc = "call" /\ InRegistry => Cardinality(Hits(Top.arg, Checks)) <= 1)
  /\ (Done => ret = ClassOf(root))
  /\ (Panicked => ClassOf(root) = PanicResult)

\* A wrapped value classified with the classifier's check moved away from
\* its place in the source.
C6_Witness ==
  /\ Done
  /\ order # SourceOrder
  /\ Depth(root) >= 1
  /\ get_custom_error_class(root) = None
  /\ Checks[1].ty = "io::Error"
  /\ Head(root).ty = "NetError"
  /\ ret = "PermissionDenied"

\* The tag the claim gives for an io::ErrorKind.
IoTagOfKind(kind) ==
  CASE kind = "InvalidInput" -> "TypeError"
    [] kind = "Other" -> "Error"
    [] kind \in ModeledKinds \cup TextualKinds -> kind
    [] OTHER -> "Error"

(* C7.  OS I/O classification: get_io_error_class maps every modeled kind   *)
(* to the tag of the same name, InvalidInput to "TypeError" and Other to    *)
(* "Error"; the kinds FilesystemLoop, IsADirectory, NetworkUnreachable and  *)
(* NotADirectory to the tags of those names; every other kind to "Error".   *)
C7_IoClassification ==
  /\ (Returning("get_io_error_class") => ret = IoTagOfKind(Var(Top.arg)))
  /\ (Panicked => Top.fn # "get_io_error_class")

\* get_io_error_class on the wrapped I/O error of e, one or two levels down.
IoClassOfInner(e) == Eval("get_io_error_class", Inner(e), Registry)

(* C8.  Key-value store classification: get_kv_error maps every             *)
(* quantity-limit variant to "TypeError", the variants Io and               *)
(* InvalidEnqueue to get_io_error_class of the wrapped I/O error, and for   *)
(* InvalidCheck and InvalidMutation the Io sub-variant to get_io_error_class*)
(* of its I/O error and the validation sub-variants to "TypeError".         *)
C8_KvClassification ==
  LET e == Top.arg IN
  /\ Returning("get_kv_error") =>
       /\ (Var(e) \in KvLimits => ret = "TypeError")
       /\ (Var(e) \in {"Io", "InvalidEnqueue"} => ret = IoClassOfInner(e))
       /\ (Var(e) \in {"InvalidCheck", "InvalidMutation"} =>
             /\ (Var(Inner(e)) = "Io" => ret = IoClassOfInner(Inner(e)))
             /\ (Var(Inner(e)) \in {"InvalidVersionstamp",
                                    "InvalidMutationWithValue",
                                    "InvalidMutationWithoutValue"}
                   => ret = "TypeError"))
  /\ (Panicked => Top.fn # "get_kv_error")

\* KvError::InvalidMutation(KvMutationError::Io(PermissionDenied))
C8_Witness ==
  /\ Returning("get_kv_error")
  /\ Var(Top.arg) = "InvalidMutation"
  /\ Var(Inner(Top.arg)) = "Io"
  /\ Var(Inner(Inner(Top.arg))) = "PermissionDenied"
  /\ ret = "PermissionDenied"

(* C9.  Networking and TLS classification: get_net_error maps a closed      *)
(* listener or socket to "BadResource", a busy listener, socket, stream or  *)
(* accept to "Busy", a closed-not-connected socket to "NotConnected", DNS   *)
(* not-found, not-connected and timed-out to "NotFound", "NotConnected" and *)
(* "TimedOut"; get_tls_error_class maps CertInvalid, CertsNotFound,         *)
(* KeysNotFound and KeyDecode to "InvalidData", UnableAddPemFileToCert to   *)
(* get_io_error_class of the wrapped I/O error and Rustls to "Error"; and a *)
(* TLS error wrapped in NetError::Tls classifies as it does directly.       *)
C9_NetTlsClassification ==
  LET e == Top.arg IN
  /\ Returning("get_net_error") =>
       /\ (Var(e) \in {"ListenerClosed", "SocketClosed"}
             => ret = "BadResource")
       /\ (Var(e) \in {"ListenerBusy", "SocketBusy", "TcpStreamBusy",
                       "AcceptTaskOngoing"} => ret = "Busy")
       /\ (Var(e) \in {"SocketClosedNotConnected", "DnsNotConnected"}
             => ret = "NotConnected")
       /\ (Var(e) = "DnsNotFound" => ret = "NotFound")
       /\ (Var(e) = "DnsTimedOut" => ret = "TimedOut")
       /\ (Var(e) = "Tls" => ret = ClassOf(Inner(e)))
  /\ Returning("get_tls_error_class") =>
       /\ (Var(e) \in {"CertInvalid", "CertsNotFound", "KeysNotFound",
                       "KeyDecode"} => ret = "InvalidData")
       /\ (Var(e) = "UnableAddPemFileToCert" => ret = IoClassOfInner(e))
       /\ (Var(e) = "Rustls" => ret = "Error")
  /\ (Panicked => Top.fn \notin {"get_net_error", "get_tls_error_class"})

\* NetError::Tls(TlsError::CertsNotFound) returns from get_net_error.
C9_Witness ==
  /\ Returning("get_net_error")
  /\ Var(Top.arg) = "Tls"
  /\ Var(Inner(Top.arg)) = "CertsNotFound"
  /\ ret = "InvalidData"
  /\ ClassOf(Inner(Top.arg)) = "InvalidData"

(* C10.  Cron, cache and broadcast-channel classification: the Resource     *)
(* variant of each of the three error types is classified by the custom     *)
(* hook applied to the wrapped resource error, and the classifier still     *)
(* returns a tag when the hook reports none; every validation-failure       *)
(* variant of CronError classifies as "TypeError".                          *)
C10_ResourceVariants ==
  LET e == Top.arg IN
  (/\ pc \in {"ret", "panicked"}
   /\ Top.fn \in {"get_cron_error_class", "get_cache_error",
                  "get_broadcast_channel_error"})
  => /\ (Var(e) = "Resource" =>
           /\ ~Panicked
           /\ ret # None
           /\ (get_custom_error_class(Inner(e)) # None
                 => ret = get_custom_error_class(Inner(e))))
     /\ (Top.fn = "get_cron_error_class" /\ Var(e) \in CronValidation
           => ~Panicked /\ ret = "TypeError")

\* The variants whose payload is a nested generic cause that the classifier
\* hands back to get_error_class_name.
GenericCauseVariants ==
  {<<"ReprError", "Permission">>}
  \cup {<<"DlfcnError", v>> : v \in {"Permission", "Other"}}
  \cup {<<"StaticError", "Resource">>}
  \cup {<<"CallbackError", v>> : v \in {"Resource", "Other", "Permission"}}
  \cup {<<"CallError", "Permission">>}
  \cup {<<"MessagePortError", "Resource">>}
  \cup {<<"NetError", v>> : v \in {"RootCertStore", "Permission", "Resource"}}
  \cup {<<"KvError", v>> : v \in {"DatabaseHandler", "Resource", "Kv"}}
  \cup {<<"CronError", "Other">>, <<"CacheError", "Other">>,
        <<"BroadcastChannelError", "Other">>}

\* The frame f is a domain classifier at one of these variants.
UnwrapsGenericCause(f) ==
  /\ f.fn # "get_error_class_name"
  /\ <<Head(f.arg).ty, Head(f.arg).var>> \in GenericCauseVariants

\* The innermost frame is get_error_class_name called from such a variant.
NestedCauseCall ==
  /\ Len(stack) >= 2
  /\ InRegistry
  /\ UnwrapsGenericCause(stack[Len(stack) - 1])
  /\ Top.arg = Inner(stack[Len(stack) - 1].arg)

(* C11.  Nested generic cause: a domain classifier at a variant that holds  *)
(* a nested generic cause calls get_error_class_name on the nested value    *)
(* and nothing else; that call asks the custom hook first and, when the     *)
(* hook reports a tag, returns it without trying a check; and the           *)
(* classifier returns the hook's tag when there is one, otherwise the       *)
(* nested value's classification when it has one, and "Error" when the      *)
(* nested value is unclassified.  The classifier itself never panics.       *)
C11_NestedCause ==
  /\ [][pc = "call" /\ UnwrapsGenericCause(Top) =>
          /\ Calls
          /\ Callee = Frame("get_error_class_name", Inner(Top.arg),
                            "unwrap_or")]_vars
  /\ [][(pc = "call" /\ NestedCauseCall
         /\ get_custom_error_class(Top.arg) # None) =>
          /\ stack' = stack
          /\ pc' = "ret"
          /\ ret' = get_custom_error_class(Top.arg)]_vars
  /\ [](pc \in {"ret", "panicked"} /\ UnwrapsGenericCause(Top) =>
          LET nested == Inner(Top.arg) IN
          /\ ~Panicked
          /\ ret = (CASE get_custom_error_class(nested) # None ->
                           get_custom_error_class(nested)
                      [] ClassOf(nested) = None -> "Error"
                      [] OTHER -> ClassOf(nested)))

\* MessagePortError::Resource(DlfcnError::Other(cause)) where the cause is
\* of no registered type and reports no class: the inner classifier has
\* returned "Error", and so does the outer one.
C11_Witness ==
  /\ pc = "ret"
  /\ Len(stack) = 2
  /\ UnwrapsGenericCause(Top)
  /\ Head(Top.arg).ty = "MessagePortError"
  /\ Head(Inner(Top.arg)).ty = "DlfcnError" /\ Var(Inner(Top.arg)) = "Other"
  /\ Head(Inner(Inner(Top.arg))).ty = "UnregisteredError"
  /\ get_custom_error_class(Inner(Inner(Top.arg))) = None
  /\ ClassOf(Inner(Inner(Top.arg))) = None
  /\ ClassOf(Inner(Top.arg)) = "Error"
  /\ ret = "Error"

====
